---------------------------- MODULE Spec2Model ----------------------------
(***************************************************************************)
(* CogniSpace: the event ledger, the context-window handoff coordinator    *)
(* and the rollout quality gates.                                          *)
(*                                                                         *)
(* The envelope contract is src/frontend/src/contracts/eventEnvelope.ts,   *)
(* the replay types are src/frontend/src/api/logs.ts, the adopted handoff  *)
(* protocol (steps, lifecycle events, probes, gates, risk controls) is     *)
(* src/unnamed/part_000.  The ledger and the coordinator themselves are    *)
(* backend services whose code is not among the source files; they are     *)
(* modelled from the design document (sections 3 to 7).                    *)
(***************************************************************************)
EXTENDS Integers, Sequences, FiniteSets, TLC

(***************************************************************************)
(* Bounds of the model.                                                    *)
(***************************************************************************)
\* appends that callers make, over all sessions, with no handoff under way
MaxAppends == 3
\* handoff transition runs started, over all sessions
MaxRuns == 3
\* appends that callers make while one handoff runs
MaxResumeAppends == 2
\* configured maximum of coverage retries of one run
MaxRetries == 2
\* transition runs in the specification with fairness
MaxLiveRuns == 1
\* user actions on the history console
MaxClicks == 2
\* handoffs in the rollout window handed to the quality gate evaluator
MaxWindow == 2

Sessions == {"s1", "s2", "s3"}
Procs == {"p1", "p2"}
None == "none"

(***************************************************************************)
(* EventEnvelope (eventEnvelope.ts).  An envelope is a function from field *)
(* names to values; a field that is missing is not in its domain.          *)
(***************************************************************************)
ActorRoles == {"PM", "LEAD", "DEV", "AUDITOR", "SYSTEM", "USER"}
Channels == {"GLOBAL", "LOCAL", "SYSTEM", "AUTOPROMPT"}

StringFields ==
    {"schema_version", "event_id", "session_id", "trace_id", "timestamp_utc",
     "actor_id", "event_type"}
RequiredFields == StringFields \cup {"actor_role", "channel", "payload"}
CountFields == {"token_in", "token_out", "latency_ms", "cost_usd"}
DefaultedFields == CountFields \cup {"safety_flags"}
OptionalFields == {"parent_event_id"}
EnvelopeFields == RequiredFields \cup DefaultedFields \cup OptionalFields

Has(env, f) == f \in DOMAIN env

\* a schema that takes any actor_role
SchemaAcceptsAnyRole(env) ==
    /\ RequiredFields \subseteq DOMAIN env
    /\ env["channel"] \in Channels
    /\ \A f \in CountFields : Has(env, f) => env[f] >= 0

\* z.object(...).safeParse(env).success
SchemaAccepts(env) ==
    /\ RequiredFields \subseteq DOMAIN env
    /\ env["actor_role"] \in ActorRoles
    /\ env["channel"] \in Channels
    /\ \A f \in CountFields : Has(env, f) => env[f] >= 0

\* the parsed value: the defaults filled in
SchemaParse(env) ==
    [f \in (DOMAIN env \cap EnvelopeFields) \cup DefaultedFields |->
        IF Has(env, f) THEN env[f]
        ELSE IF f = "safety_flags" THEN {} ELSE 0]

Drop(env, f) == [g \in DOMAIN env \ {f} |-> env[g]]
With(env, f, v) == [g \in DOMAIN env \cup {f} |-> IF g = f THEN v ELSE env[g]]

AgentPayload == [note |-> "x"]

BaseEnvelope(p, s, role) ==
    [f \in RequiredFields |->
        CASE f = "schema_version" -> "1"
          [] f = "event_id" -> "e"
          [] f = "session_id" -> s
          [] f = "trace_id" -> "t"
          [] f = "timestamp_utc" -> "ts"
          [] f = "actor_id" -> p
          [] f = "actor_role" -> role
          [] f = "channel" -> "LOCAL"
          [] f = "event_type" -> "NOTE"
          [] f = "payload" -> AgentPayload]

\* the envelopes each caller may hand to append
InputsOf ==
    [p \in Procs |->
        LET valid == {BaseEnvelope(p, s, r) : s \in Sessions, r \in {"DEV", "SYSTEM"}}
            b == BaseEnvelope(p, "s1", "DEV")
        IN  valid
              \cup {With(b, "token_in", 7)}
              \cup {Drop(b, f) : f \in RequiredFields}
              \cup {With(b, "actor_role", "ROOT"), With(b, "actor_role", "dev")}
              \cup {With(b, "channel", "DM")}
              \cup {With(b, "token_in", -1), With(b, "extra", "x")}]

EnvelopeInputs(p) == InputsOf[p]

(***************************************************************************)
(* State.                                                                  *)
(***************************************************************************)
VARIABLES
    ledger,     \* EventLedger: session -> the persisted records, in order
    nextSeq,    \* EventLedger: session -> the next sequence to assign
    lock,       \* EventLedger: session -> the caller inside its critical section
    pc,         \* caller -> "idle" | "wait" | "write"
    req,        \* caller -> the parsed envelope of its append in flight
    seqOf,      \* caller -> the sequence its append was assigned
    result,     \* caller -> what its last append returned
    appendsLeft, \* environment: appends the callers may still make
    runsLeft,   \* environment: transition runs that may still be triggered
    runs,       \* HandoffCoordinator: the transition runs, by handoff_id
    held,       \* HandoffCoordinator: the session pairs locked by a run
    failCount,  \* source session -> consecutive FAILED transitions
    blocked,    \* source session -> transitions blocked until cleared
    alerts,     \* source session -> system alerts raised
    window,     \* QualityGateEvaluator: the rollout window under evaluation
    verdict,    \* QualityGateEvaluator: the last verdict returned
    app,        \* history console: the state of App, its loads in flight
    mounted,    \* history console: App has been mounted
    settled,    \* history console: how the last load of each kind ended
    clicksLeft  \* environment: user actions that may still happen

ledgerVars == <<ledger, nextSeq, lock>>
callerVars == <<pc, req, seqOf, result, appendsLeft>>
handoffVars == <<runs, held, failCount, blocked, alerts, runsLeft>>
gateVars == <<window, verdict>>
consoleVars == <<app, mounted, settled, clicksLeft>>
vars == <<ledger, nextSeq, lock, pc, req, seqOf, result, appendsLeft,
          runs, held, failCount, blocked, alerts, runsLeft, window, verdict,
          app, mounted, settled, clicksLeft>>

NoEnvelope == [f \in {} |-> 0]
NoResult == [status |-> "none", sequence |-> -1]
NoVerdict == [pass |-> FALSE, failing |-> {}, evaluated |-> FALSE]

(***************************************************************************)
(* HandoffCoordinator: states and the handoff packet.                      *)
(***************************************************************************)
States ==
    <<"TRIGGERED", "FROZEN", "SNAPSHOTTED", "COMPRESSED", "PRUNED",
      "VALIDATED", "BOOTSTRAPPED", "VERIFIED", "COMPLETED">>
Terminal == {States[Len(States)], "FAILED"}

StateIndex(st) == CHOOSE i \in 1..Len(States) : States[i] = st
\* a coordinator that goes from COMPRESSED straight to VALIDATED
SuccessorSkipping(st) ==
    IF st = "COMPRESSED" THEN "VALIDATED" ELSE States[StateIndex(st) + 1]

\* the state a successful step leads to
Successor(st) == States[StateIndex(st) + 1]

ProbeCategories == {"mission", "threads", "decisions", "artifacts", "risks"}

NonTerminal(r) == r.state \notin Terminal

(***************************************************************************)
(* EventLedger.  append(envelope) -> sequence: validation, then the        *)
(* critical section of the envelope's session (the sequence is assigned    *)
(* and the record persisted inside it), then the return.                   *)
(***************************************************************************)
\* roles whose events a frozen or not yet resumed session still takes
SystemRoles == {"SYSTEM", "AUDITOR"}

\* a ledger that does not hold agents back from a target session
AwaitsPacketNever(s) == FALSE

\* the session is the target of a run whose packet is not written yet
AwaitsPacket(s) ==
    \E i \in DOMAIN runs :
        runs[i].target = s /\ NonTerminal(runs[i]) /\ ~runs[i].bootstrapped

\* the session holds a packet whose handoff has not COMPLETED
ResumeBlocked(s) ==
    \E i \in DOMAIN runs :
        runs[i].target = s /\ runs[i].bootstrapped /\ runs[i].state # "COMPLETED"

\* the session is the source of a run that has frozen it
Frozen(s) ==
    \E i \in DOMAIN runs :
        runs[i].source = s /\ NonTerminal(runs[i]) /\ runs[i].state # "TRIGGERED"

\* whether the ledger takes an event of this role into session s
Admits(s, role) ==
    /\ ~AwaitsPacket(s)
    /\ (ResumeBlocked(s) \/ Frozen(s)) => role \in SystemRoles

\* the record persisted for an envelope: ReplayEvent = EventEnvelope & {sequence}
ReplayEvent(env, seq) == With(env, "sequence", seq)

Persisted(led, s, env, seq) == [led EXCEPT ![s] = Append(@, ReplayEvent(env, seq))]

\* a ledger whose appends are not serialized
SessionFreeUnlocked(p, s) == TRUE

\* whether the critical section of session s is free for caller p
SessionFree(p, s) == lock[s] = None

\* append, step 1: validate; a malformed envelope is rejected here
AppendCall(p, env) ==
    /\ pc[p] = "idle"
    /\ IF SchemaAccepts(env)
       THEN /\ appendsLeft > 0
            /\ pc' = [pc EXCEPT ![p] = "wait"]
            /\ req' = [req EXCEPT ![p] = SchemaParse(env)]
            /\ result' = [result EXCEPT ![p] = NoResult]
            /\ appendsLeft' = appendsLeft - 1
       ELSE /\ result' = [result EXCEPT ![p] =
                             [status |-> "ValidationError", sequence |-> -1]]
            /\ UNCHANGED <<pc, req, appendsLeft>>
    /\ UNCHANGED <<seqOf, ledgerVars, handoffVars, gateVars, consoleVars>>

\* append, step 2: enter the session's critical section, assign the sequence
AppendEnter(p) ==
    /\ pc[p] = "wait"
    /\ LET s == req[p]["session_id"] IN
       /\ SessionFree(p, s)
       /\ IF Admits(s, req[p]["actor_role"])
          THEN /\ lock' = [lock EXCEPT ![s] = p]
               /\ seqOf' = [seqOf EXCEPT ![p] = nextSeq[s]]
               /\ nextSeq' = [nextSeq EXCEPT ![s] = @ + 1]
               /\ pc' = [pc EXCEPT ![p] = "write"]
               /\ UNCHANGED <<req, result, appendsLeft>>
          ELSE /\ result' = [result EXCEPT ![p] =
                                [status |-> "SessionClosed", sequence |-> -1]]
               /\ pc' = [pc EXCEPT ![p] = "idle"]
               /\ req' = [req EXCEPT ![p] = NoEnvelope]
               /\ appendsLeft' = appendsLeft + 1
               /\ UNCHANGED <<lock, seqOf, nextSeq>>
    /\ UNCHANGED <<ledger, handoffVars, gateVars, consoleVars>>

\* append, step 3: persist, leave the critical section, return the sequence
AppendPersist(p) ==
    /\ pc[p] = "write"
    /\ LET s == req[p]["session_id"] IN
       /\ ledger' = Persisted(ledger, s, req[p], seqOf[p])
       /\ lock' = [lock EXCEPT ![s] = IF @ = p THEN None ELSE @]
    /\ result' = [result EXCEPT ![p] = [status |-> "ok", sequence |-> seqOf[p]]]
    /\ pc' = [pc EXCEPT ![p] = "idle"]
    /\ req' = [req EXCEPT ![p] = NoEnvelope]
    /\ seqOf' = [seqOf EXCEPT ![p] = -1]
    /\ UNCHANGED <<nextSeq, appendsLeft, handoffVars, gateVars, consoleVars>>

\* read(session_id, since_sequence, limit)
Read(s, since, limit) ==
    LET hits == SelectSeq(ledger[s], LAMBDA e : e["sequence"] >= since)
    IN  SubSeq(hits, 1, IF Len(hits) < limit THEN Len(hits) ELSE limit)

(***************************************************************************)
(* HandoffPacket and the drafts a snapshot may build.  Scores are in       *)
(* percent.  An item of open_threads or decisions_log carries the event    *)
(* ids that support it and whether it is causally linked to other items.   *)
(***************************************************************************)
CoverageGate == 80
ConfidenceGate == 80
\* consecutive FAILED transitions of one source session that raise the alert
FailureCeiling == 3

Item(id, support, linked) == [id |-> id, support |-> support, linked |-> linked]

NoProbes == [c \in {} |-> TRUE]

Packet(hid, s, t, d) ==
    [handoff_id |-> hid, source_session_id |-> s, target_session_id |-> t,
     mission_statement |-> d.mission, open_threads |-> d.threads,
     decisions_log |-> d.decisions, artifacts_refs |-> {"a1"}, risks |-> <<>>,
     coverage_score |-> d.coverage, confidence_score |-> d.confidence,
     invariants_passed |-> FALSE, continuity_probe_results |-> NoProbes]

NoDraft ==
    [mission |-> "", threads |-> <<>>, decisions |-> <<>>,
     coverage |-> 0, confidence |-> 0]

GoodDraft ==
    [mission |-> "m", threads |-> <<Item("t1", {"e"}, TRUE)>>,
     decisions |-> <<Item("d1", {"e"}, TRUE)>>, coverage |-> 90, confidence |-> 90]

\* what SNAPSHOTTED may build from a source session and an evidence budget
DraftInputs ==
    { GoodDraft,
      [GoodDraft EXCEPT !.coverage = 55],
      [GoodDraft EXCEPT !.confidence = 70],
      [GoodDraft EXCEPT !.decisions = <<Item("d1", {"e"}, TRUE), Item("d2", {}, TRUE)>>],
      [GoodDraft EXCEPT !.threads = <<Item("t1", {"e"}, TRUE), Item("t2", {"e"}, FALSE)>>],
      [GoodDraft EXCEPT !.mission = ""] }

\* what the five probes may report
ProbeInputs ==
    { [c \in ProbeCategories |-> TRUE],
      [c \in ProbeCategories |-> c # "mission"],
      [c \in ProbeCategories |-> c \notin {"decisions", "risks"}] }

\* the scores of a packet that are below their gate
Deficits(pk) ==
    {n \in {"coverage_score", "confidence_score"} :
        pk[n] < (IF n = "coverage_score" THEN CoverageGate ELSE ConfidenceGate)}

Shortfall(pk) == Deficits(pk) # {}

Supported(items) == SelectSeq(items, LAMBDA x : x.support # {})
Linked(items) == SelectSeq(items, LAMBDA x : x.linked)

\* COMPRESSED: claims without a supporting event id are dropped
Compressed(pk) ==
    [pk EXCEPT !.open_threads = Supported(@), !.decisions_log = Supported(@)]

\* PRUNED: isolated items are dropped
Pruned(pk) ==
    [pk EXCEPT !.open_threads = Linked(@), !.decisions_log = Linked(@)]

\* a validation that does not look at the decisions' evidence
PacketViolationsNoEvidence(pk) ==
    {n \in {"mission_statement"} : pk.mission_statement = ""}

\* VALIDATED: the constraints of the packet schema that a packet breaks
PacketViolations(pk) ==
    {n \in {"mission_statement"} : pk.mission_statement = ""}
      \cup {n \in {"decisions_log", "open_threads"} :
                \E k \in DOMAIN pk[n] : pk[n][k].support = {}}
      \cup {n \in {"coverage_score", "confidence_score"} : pk[n] \notin 0..100}

PacketInvariants(pk) == PacketViolations(pk) = {}

\* the probes that did not pass
FailedProbes(results) ==
    (ProbeCategories \ DOMAIN results) \cup {c \in DOMAIN results : ~results[c]}

\* a verification that is content when any probe passes
AllProbesPassLenient(results) == \E c \in DOMAIN results : results[c]

AllProbesPass(results) == FailedProbes(results) = {}

NewRun(hid, s, t) ==
    [source |-> s, target |-> t, state |-> "TRIGGERED", reason |-> None,
     detail |-> {}, retries |-> 0, budget |-> 1, bootstrapped |-> FALSE,
     packet |-> Packet(hid, s, t, NoDraft)]

(***************************************************************************)
(* The coordinator's own ledger writes.  Each goes through the session's   *)
(* critical section; a step of the coordinator takes it whole.             *)
(***************************************************************************)
LifecyclePayload(hid, reason) == [handoff_id |-> hid, reason |-> reason]

SystemEnvelope(s, type, payload) ==
    SchemaParse(
        [f \in RequiredFields |->
            CASE f = "schema_version" -> "1"
              [] f = "event_id" -> "h"
              [] f = "session_id" -> s
              [] f = "trace_id" -> "t"
              [] f = "timestamp_utc" -> "ts"
              [] f = "actor_id" -> "coordinator"
              [] f = "actor_role" -> "SYSTEM"
              [] f = "channel" -> "SYSTEM"
              [] f = "event_type" -> type
              [] f = "payload" -> payload])

LifecycleEvent(s, type, hid, reason) ==
    SystemEnvelope(s, type, LifecyclePayload(hid, reason))

PacketRecord(pk) ==
    SystemEnvelope(pk.target_session_id, "HANDOFF_PACKET", pk)

RECURSIVE ApplyWrites(_, _, _)
ApplyWrites(led, ns, ws) ==
    IF ws = <<>> THEN [led |-> led, ns |-> ns]
    ELSE LET env == Head(ws)
             s == env["session_id"]
         IN  ApplyWrites(Persisted(led, s, env, ns[s]),
                         [ns EXCEPT ![s] = @ + 1], Tail(ws))

CoordinatorWrites(ws) ==
    /\ \A k \in DOMAIN ws : lock[ws[k]["session_id"]] = None
    /\ LET out == ApplyWrites(ledger, nextSeq, ws) IN
       /\ ledger' = out.led
       /\ nextSeq' = out.ns
    /\ UNCHANGED lock

(***************************************************************************)
(* HandoffCoordinator: the transition state machine.                       *)
(***************************************************************************)
\* a lock that is taken on the target session only
PairFreeTargetOnly(s, t) ==
    \A pair \in held : pair[2] # t

\* the exclusive lock on a session pair: neither session is in a held pair
PairFree(s, t) ==
    \A pair \in held : {pair[1], pair[2]} \cap {s, t} = {}

\* a session nothing was ever appended to
Fresh(t) == ledger[t] = <<>> /\ nextSeq[t] = 0

\* a successful step of run i: its new record, and the events it emits
Advance(i, r2, ws) ==
    /\ runs' = [runs EXCEPT ![i] = r2]
    /\ CoordinatorWrites(ws)
    /\ held' = IF r2.state \in Terminal
               THEN held \ {<<r2.source, r2.target>>} ELSE held
    /\ failCount' = IF r2.state = States[Len(States)]
                    THEN [failCount EXCEPT ![r2.source] = 0] ELSE failCount
    /\ UNCHANGED <<blocked, alerts, runsLeft, callerVars, gateVars, consoleVars>>

\* the record of a FAILED run: the reason code, what it names (the broken
\* constraints, the failed probes, the scores below their gate) and the probe
\* report stay; the draft is discarded
FailedRun(i, r, reason, detail) ==
    [r EXCEPT !.state = "FAILED", !.reason = reason, !.detail = detail,
              !.retries = 0, !.budget = 1,
              !.packet = [Packet(i, r.source, r.target, NoDraft) EXCEPT
                             !.continuity_probe_results =
                                 r.packet.continuity_probe_results]]

\* a coordinator that keeps one failure count for all source sessions
FailRunSharedCount(i, r, reason, detail, before) ==
    LET s == r.source
        n == failCount[s] + 1
        all == Cardinality({j \in DOMAIN runs : runs[j].state = "FAILED"}) + 1
    IN  /\ runs' = [runs EXCEPT ![i] = FailedRun(i, r, reason, detail)]
        /\ CoordinatorWrites(
               before \o <<LifecycleEvent(s, "CONTEXT_HANDOFF_FAILED", i, reason)>>)
        /\ held' = held \ {<<s, r.target>>}
        /\ failCount' = [failCount EXCEPT ![s] = n]
        /\ IF all = FailureCeiling
           THEN /\ alerts' = [alerts EXCEPT ![s] = @ + 1]
                /\ blocked' = [blocked EXCEPT ![s] = TRUE]
           ELSE UNCHANGED <<alerts, blocked>>
        /\ UNCHANGED <<runsLeft, callerVars, gateVars, consoleVars>>

\* run i ends in FAILED with a reason code; the retry ceiling is enforced
FailRun(i, r, reason, detail, before) ==
    LET s == r.source
        n == failCount[s] + 1
    IN  /\ runs' = [runs EXCEPT ![i] = FailedRun(i, r, reason, detail)]
        /\ CoordinatorWrites(
               before \o <<LifecycleEvent(s, "CONTEXT_HANDOFF_FAILED", i, reason)>>)
        /\ held' = held \ {<<s, r.target>>}
        /\ failCount' = [failCount EXCEPT ![s] = n]
        /\ IF n = FailureCeiling
           THEN /\ alerts' = [alerts EXCEPT ![s] = @ + 1]
                /\ blocked' = [blocked EXCEPT ![s] = TRUE]
           ELSE UNCHANGED <<alerts, blocked>>
        /\ UNCHANGED <<runsLeft, callerVars, gateVars, consoleVars>>

Trigger(s, t) ==
    /\ runsLeft > 0
    /\ s # t
    /\ ~blocked[s]
    /\ PairFree(s, t)
    /\ Fresh(t)
    /\ LET hid == Len(runs) + 1 IN
       /\ runs' = Append(runs, NewRun(hid, s, t))
       /\ CoordinatorWrites(<<LifecycleEvent(s, "CONTEXT_HANDOFF_STARTED", hid, None)>>)
    /\ held' = held \cup {<<s, t>>}
    /\ runsLeft' = runsLeft - 1
    /\ UNCHANGED <<failCount, blocked, alerts, callerVars, gateVars, consoleVars>>

Freeze(i) ==
    /\ runs[i].state = "TRIGGERED"
    /\ Advance(i, [runs[i] EXCEPT !.state = Successor(@)], <<>>)

Snapshot(i, d) ==
    /\ runs[i].state = "FROZEN"
    /\ Advance(i, [runs[i] EXCEPT !.state = Successor(@),
                                  !.packet = Packet(i, @.source_session_id,
                                                    @.target_session_id, d)], <<>>)

\* CoverageShortfall: the snapshot is rebuilt with an enlarged evidence budget
RetrySnapshot(i, d) ==
    /\ runs[i].state = "SNAPSHOTTED"
    /\ Shortfall(runs[i].packet)
    /\ runs[i].retries < MaxRetries
    /\ Advance(i, [runs[i] EXCEPT !.retries = @ + 1, !.budget = @ + 1,
                                  !.packet = Packet(i, @.source_session_id,
                                                    @.target_session_id, d)], <<>>)

\* a coordinator that gives up on the first shortfall
CoverageFailAtOnce(i) ==
    /\ runs[i].state = "SNAPSHOTTED"
    /\ Shortfall(runs[i].packet)
    /\ FailRun(i, runs[i], "CoverageShortfall", Deficits(runs[i].packet), <<>>)

\* the retries are used up and the scores are still below the gates
CoverageFail(i) ==
    /\ runs[i].state = "SNAPSHOTTED"
    /\ Shortfall(runs[i].packet)
    /\ runs[i].retries >= MaxRetries
    /\ FailRun(i, runs[i], "CoverageShortfall", Deficits(runs[i].packet), <<>>)

Compress(i) ==
    /\ runs[i].state = "SNAPSHOTTED"
    /\ ~Shortfall(runs[i].packet)
    /\ Advance(i, [runs[i] EXCEPT !.state = Successor(@),
                                  !.packet = Compressed(@)], <<>>)

Prune(i) ==
    /\ runs[i].state = "COMPRESSED"
    /\ Advance(i, [runs[i] EXCEPT !.state = Successor(@), !.packet = Pruned(@)], <<>>)

Validate(i) ==
    /\ runs[i].state = "PRUNED"
    /\ LET r == [runs[i] EXCEPT
                    !.packet.invariants_passed = PacketInvariants(runs[i].packet)]
           built == LifecycleEvent(r.source, "CONTEXT_HANDOFF_PACKET_BUILT", i, None)
       IN  IF r.packet.invariants_passed
           THEN Advance(i, [r EXCEPT !.state = Successor(@)],
                        <<built, LifecycleEvent(r.source, "CONTEXT_HANDOFF_VALIDATED",
                                                i, None)>>)
           ELSE FailRun(i, r, "ValidationError", PacketViolations(r.packet), <<built>>)

Bootstrap(i) ==
    /\ runs[i].state = "VALIDATED"
    /\ Advance(i, [runs[i] EXCEPT !.state = Successor(@), !.bootstrapped = TRUE],
               <<PacketRecord(runs[i].packet),
                 LifecycleEvent(runs[i].source, "CONTEXT_HANDOFF_BOOTSTRAPPED", i, None)>>)

\* the probes run to the end; the run is VERIFIED only if all of them pass
Verify(i, results) ==
    /\ runs[i].state = "BOOTSTRAPPED"
    /\ LET r == [runs[i] EXCEPT !.packet.continuity_probe_results = results] IN
       IF AllProbesPass(results)
       THEN Advance(i, [r EXCEPT !.state = Successor(@)], <<>>)
       ELSE FailRun(i, r, "ProbeFailure", FailedProbes(results), <<>>)

Complete(i) ==
    /\ runs[i].state = "VERIFIED"
    /\ Advance(i, [runs[i] EXCEPT !.state = Successor(@)],
               <<LifecycleEvent(runs[i].source, "CONTEXT_HANDOFF_COMPLETED", i, None)>>)

\* a timeout imposed by the caller, in any non-terminal state
Timeout(i) ==
    /\ NonTerminal(runs[i])
    /\ FailRun(i, runs[i], "Timeout", {}, <<>>)

\* an operator clears the block of a source session
ManualClear(s) ==
    /\ blocked[s]
    /\ blocked' = [blocked EXCEPT ![s] = FALSE]
    /\ failCount' = [failCount EXCEPT ![s] = 0]
    /\ UNCHANGED <<runs, held, alerts, runsLeft, ledgerVars, callerVars, gateVars, consoleVars>>


(***************************************************************************)
(* QualityGateEvaluator: the mandatory gates over a rollout window.  A     *)
(* window is the packets of its handoffs and the silent-failure counts     *)
(* before and after the rollout.                                           *)
(***************************************************************************)
GateNames ==
    {"invariants_passed", "coverage_score", "confidence_score",
     "continuity_probe_pass_rate", "silent_failures"}

ProbesPassed(pk) ==
    Cardinality({c \in DOMAIN pk.continuity_probe_results :
                    pk.continuity_probe_results[c]})
ProbesTotal(pk) == Cardinality(DOMAIN pk.continuity_probe_results)

\* an evaluator that holds the pass rate against the 0.80 of the score gates
PassRateAtLeastGate(pk) ==
    ProbesTotal(pk) > 0 /\ ProbesPassed(pk) * 100 >= CoverageGate * ProbesTotal(pk)

\* continuity_probe_pass_rate == 1.0
PassRateIsOne(pk) == ProbesTotal(pk) > 0 /\ ProbesPassed(pk) = ProbesTotal(pk)

GateHolds(name, w) ==
    CASE name = "invariants_passed" ->
            \A k \in DOMAIN w.handoffs : w.handoffs[k].invariants_passed
      [] name = "coverage_score" ->
            \A k \in DOMAIN w.handoffs : w.handoffs[k].coverage_score >= CoverageGate
      [] name = "confidence_score" ->
            \A k \in DOMAIN w.handoffs : w.handoffs[k].confidence_score >= ConfidenceGate
      [] name = "continuity_probe_pass_rate" ->
            \A k \in DOMAIN w.handoffs : PassRateIsOne(w.handoffs[k])
      [] name = "silent_failures" ->
            w.silent_after <= w.silent_before

GateVerdict(w) ==
    LET failing == {name \in GateNames : ~GateHolds(name, w)}
    IN  [pass |-> failing = {}, failing |-> failing, evaluated |-> TRUE]

\* evaluate(window): a verdict and nothing else
Evaluate ==
    /\ ~verdict.evaluated
    /\ verdict' = GateVerdict(window)
    /\ UNCHANGED <<window, ledgerVars, callerVars, handoffVars, consoleVars>>

GatePacket(inv, cov, conf, probes) ==
    [Packet(1, "s1", "s2", GoodDraft) EXCEPT
        !.invariants_passed = inv, !.coverage_score = cov,
        !.confidence_score = conf, !.continuity_probe_results = probes]

\* the handoffs a rollout window may hold
GateHandoffInputs ==
    {GatePacket(inv, cov, conf, probes) :
        inv \in BOOLEAN, cov \in {79, 80}, conf \in {79, 80},
        probes \in ProbeInputs \cup {NoProbes}}

RECURSIVE SeqsUpTo(_, _)
SeqsUpTo(S, n) ==
    IF n = 0 THEN {<<>>}
    ELSE LET shorter == SeqsUpTo(S, n - 1)
         IN  shorter \cup {Append(q, x) : q \in {y \in shorter : Len(y) = n - 1}, x \in S}

WindowInputs ==
    {[handoffs |-> hs, silent_before |-> b, silent_after |-> a] :
        hs \in SeqsUpTo(GateHandoffInputs, MaxWindow), b \in {0, 1}, a \in {0, 1}}

NoWindow == [handoffs |-> <<>>, silent_before |-> 0, silent_after |-> 0]

(***************************************************************************)
(* The history console: api/logs.ts, store/sessionStore.ts and App.  The   *)
(* server behind the API is an input: it answers a fetch with a status and *)
(* a body.                                                                 *)
(***************************************************************************)
PAGE_SIZE == 50
\* body.slice(0, 500) in fetchJson
ErrorBodyLimit == 500

ConsoleSessions == {"s1", "s2"}

\* null, where a response or an error message may stand
Null == [null |-> TRUE]
\* next_offset: null
NoOffset == -1

\* the events the server holds of each session
EventCount == [s \in ConsoleSessions |-> IF s = "s1" THEN 120 ELSE 30]

Slice(body, n) == SubSeq(body, 1, IF Len(body) < n THEN Len(body) ELSE n)

\* response.ok
ResponseOk(response) == response.status \in 200..299

\* fetchJson: throws on a response that is not OK, else returns its JSON
fetchJson(response) ==
    IF ~ResponseOk(response)
    THEN [threw |-> TRUE,
          message |-> [status |-> response.status,
                       statusText |-> response.statusText,
                       body |-> Slice(response.body, ErrorBodyLimit)]]
    ELSE [threw |-> FALSE, value |-> response.json]

OkResponse(json) ==
    [status |-> 200, statusText |-> "OK", body |-> <<>>, json |-> json]

ErrorResponse(status) ==
    [status |-> status,
     statusText |-> IF status = 404 THEN "Not Found" ELSE "Internal Server Error",
     body |-> <<"e", "r", "r">>, json |-> Null]

\* the statuses the server answers a failing fetch with
ErrorStatuses == {500}

GlobalAnalysisResponse(ids, raw) ==
    [session_count |-> Len(ids), selected_session_ids |-> ids, raw |-> raw]

SessionSummaryResponse(s, raw) ==
    [session_id |-> s, count |-> EventCount[s], raw |-> raw]

SessionAnalysisResponse(s, raw) ==
    [session_id |-> s, event_count |-> EventCount[s], raw |-> raw]

\* the server's paging: the offset of the next page, or null at the end
NextOffset(s, limit, off) ==
    IF off + limit < EventCount[s] THEN off + limit ELSE NoOffset

SessionEventsResponse(s, raw, limit, off) ==
    [session_id |-> s, offset |-> off, limit |-> limit,
     next_offset |-> NextOffset(s, limit, off),
     total_after_since |-> EventCount[s], raw |-> raw]

\* selected_session_ids the server may answer with
SessionLists == {<<>>, <<"s1", "s2">>, <<"s2", "s1">>}

\* what the server may answer to fetchGlobalAnalysis
GlobalResponses(call) ==
    {OkResponse(GlobalAnalysisResponse(ids, call.raw)) : ids \in SessionLists}
      \cup {ErrorResponse(st) : st \in ErrorStatuses}

\* what the server may answer to the three fetches of one loadSession
SessionResponses(call) ==
    LET ok == [summary |-> OkResponse(SessionSummaryResponse(call.sid, call.raw)),
               analysis |-> OkResponse(SessionAnalysisResponse(call.sid, call.raw)),
               events |-> OkResponse(SessionEventsResponse(call.sid, call.raw,
                                                          PAGE_SIZE, call.offset))]
    IN  {ok} \cup {[ok EXCEPT ![k] = ErrorResponse(st)] :
                      k \in DOMAIN ok, st \in ErrorStatuses}

\* Promise.all over fetchJson: the values, or the error of a fetch that threw
PromiseAll(responses) ==
    LET got == [k \in DOMAIN responses |-> fetchJson(responses[k])]
        bad == {k \in DOMAIN got : got[k].threw}
    IN  IF bad = {} THEN [threw |-> FALSE, value |-> [k \in DOMAIN got |-> got[k].value]]
        ELSE [threw |-> TRUE, message |-> got[CHOOSE k \in bad : TRUE].message]

\* useSessionStore and the useState hooks of App, the loads in flight with
\* what their closures captured, and the loads issued so far
InitApp ==
    [sessionId |-> None, rawMode |-> FALSE, globalLoading |-> FALSE,
     sessionLoading |-> FALSE, offset |-> 0, error |-> Null,
     globalAnalysis |-> Null, summary |-> Null, analysis |-> Null,
     eventsPage |-> Null,
     globalCalls |-> {}, sessionCalls |-> {},
     globalFetches |-> 0, sessionBatches |-> 0]

sessionIds(a) ==
    IF a.globalAnalysis = Null THEN <<>>
    ELSE LET ids == a.globalAnalysis.selected_session_ids
         IN  [k \in 1..Len(ids) |-> ids[Len(ids) + 1 - k]]

\* loadGlobal up to its await
loadGlobal(a) ==
    [a EXCEPT !.globalLoading = TRUE,
              !.globalFetches = @ + 1,
              !.globalCalls = @ \cup {[n |-> a.globalFetches + 1,
                                       raw |-> a.rawMode, sid |-> a.sessionId]}]

\* loadSession up to its await
loadSession(a) ==
    IF a.sessionId = None
    THEN [a EXCEPT !.summary = Null, !.analysis = Null, !.eventsPage = Null]
    ELSE [a EXCEPT !.sessionLoading = TRUE,
                   !.sessionBatches = @ + 1,
                   !.sessionCalls = @ \cup {[n |-> a.sessionBatches + 1,
                                             sid |-> a.sessionId, raw |-> a.rawMode,
                                             offset |-> a.offset]}]

\* the two effects, run after a render in which their dependencies changed
\* both effects without their dependency arrays: they run after every render
EffectsEveryRender(old, new) == loadSession(loadGlobal(new))

Effects(old, new) ==
    LET g == IF <<new.rawMode, new.sessionId>> # <<old.rawMode, old.sessionId>>
             THEN loadGlobal(new) ELSE new
    IN  IF <<new.offset, new.rawMode, new.sessionId>>
              # <<old.offset, old.rawMode, old.sessionId>>
        THEN loadSession(g) ELSE g

canPrev(a) == a.offset > 0
canNext(a) == a.eventsPage # Null /\ a.eventsPage.next_offset # NoOffset

\* no load of that kind has ended yet
NoneSettled == [global |-> "none", session |-> "none", latest |-> "none", first |-> "none"]

\* first render: both effects run
Mount ==
    /\ ~mounted
    /\ mounted' = TRUE
    /\ app' = loadSession(loadGlobal(app))
    /\ UNCHANGED <<settled, clicksLeft, ledgerVars, callerVars, handoffVars, gateVars>>

\* loadGlobal from its await on: the fetch of one call in flight is answered
GlobalSettle(call, response) ==
    /\ call \in app.globalCalls
    /\ LET r == fetchJson(response)
           rest == [app EXCEPT !.globalCalls = @ \ {call}]
           new == IF r.threw
                  THEN [rest EXCEPT !.error = r.message, !.globalLoading = FALSE]
                  ELSE LET ids == r.value.selected_session_ids
                       IN  [rest EXCEPT
                               !.globalAnalysis = r.value,
                               !.error = Null,
                               !.sessionId = IF call.sid = None /\ Len(ids) > 0
                                             THEN ids[Len(ids)] ELSE @,
                               !.globalLoading = FALSE]
       IN  /\ app' = Effects(app, new)
           /\ settled' = [settled EXCEPT
                  !.global = IF r.threw THEN "failed" ELSE "ok",
                  !.first = IF @ # "none" THEN @
                            ELSE IF r.threw THEN "failed"
                            ELSE IF r.value.session_count > 0 THEN "listed"
                            ELSE "empty"]
    /\ UNCHANGED <<mounted, clicksLeft, ledgerVars, callerVars, handoffVars, gateVars>>

\* loadSession from its await on: the three fetches of one call are answered
SessionSettle(call, responses) ==
    /\ call \in app.sessionCalls
    /\ LET r == PromiseAll(responses)
           rest == [app EXCEPT !.sessionCalls = @ \ {call}]
           new == IF r.threw
                  THEN [rest EXCEPT !.error = r.message, !.sessionLoading = FALSE]
                  ELSE [rest EXCEPT
                           !.summary = r.value.summary,
                           !.analysis = r.value.analysis,
                           !.eventsPage = r.value.events,
                           !.error = Null,
                           !.sessionLoading = FALSE]
           how == IF r.threw THEN "failed" ELSE "ok"
       IN  /\ app' = Effects(app, new)
           /\ settled' = [settled EXCEPT
                             !.session = how,
                             !.latest = IF call.n = app.sessionBatches THEN how ELSE @]
    /\ UNCHANGED <<mounted, clicksLeft, ledgerVars, callerVars, handoffVars, gateVars>>

\* a user action: the handler's updates, then the effects
Click(new) ==
    /\ mounted
    /\ clicksLeft > 0
    /\ clicksLeft' = clicksLeft - 1
    /\ app' = Effects(app, new)
    /\ UNCHANGED <<mounted, settled, ledgerVars, callerVars, handoffVars, gateVars>>

onSelectSession(id) ==
    /\ \E k \in DOMAIN sessionIds(app) : sessionIds(app)[k] = id
    /\ Click([app EXCEPT !.sessionId = id, !.offset = 0])

\* the Raw payloads switch
ToggleRaw ==
    Click([app EXCEPT !.rawMode = ~@, !.offset = 0])

Prev ==
    /\ canPrev(app)
    /\ Click([app EXCEPT !.offset = IF @ - PAGE_SIZE > 0 THEN @ - PAGE_SIZE ELSE 0])

Next ==
    /\ canNext(app)
    /\ Click([app EXCEPT !.offset = app.eventsPage.next_offset])

Refresh ==
    /\ ~(app.globalLoading \/ app.sessionLoading)
    /\ Click(loadSession(loadGlobal(app)))

(***************************************************************************)
(* The system: callers appending, the coordinator running handoffs.        *)
(***************************************************************************)
InitLedger ==
    /\ ledger = [s \in Sessions |-> <<>>]
    /\ nextSeq = [s \in Sessions |-> 0]
    /\ lock = [s \in Sessions |-> None]
    /\ pc = [p \in Procs |-> "idle"]
    /\ req = [p \in Procs |-> NoEnvelope]
    /\ seqOf = [p \in Procs |-> -1]
    /\ result = [p \in Procs |-> NoResult]

InitHandoff ==
    /\ runs = <<>>
    /\ held = {}
    /\ failCount = [s \in Sessions |-> 0]
    /\ blocked = [s \in Sessions |-> FALSE]
    /\ alerts = [s \in Sessions |-> 0]

\* the source sessions for which a trigger policy fires
Sources == {"s1", "s2"}

InitGate ==
    /\ window = NoWindow
    /\ verdict = NoVerdict

\* App before its first render
InitView ==
    /\ app = InitApp
    /\ mounted = FALSE
    /\ settled = NoneSettled

\* the console is not opened
InitConsole == InitView /\ clicksLeft = 0

\* the caller that appends while a handoff runs
ResumeCallers == {"p1"}

CallerNext(P) ==
    \E p \in P :
        \/ \E env \in EnvelopeInputs(p) : AppendCall(p, env)
        \/ AppendEnter(p)
        \/ AppendPersist(p)

\* the steps of the transition runs
RunNext ==
    \/ \E s \in Sources, t \in Sessions : Trigger(s, t)
    \/ \E i \in DOMAIN runs : Freeze(i)
    \/ \E i \in DOMAIN runs, d \in DraftInputs : Snapshot(i, d)
    \/ \E i \in DOMAIN runs, d \in DraftInputs : RetrySnapshot(i, d)
    \/ \E i \in DOMAIN runs : CoverageFail(i)
    \/ \E i \in DOMAIN runs : Compress(i)
    \/ \E i \in DOMAIN runs : Prune(i)
    \/ \E i \in DOMAIN runs : Validate(i)
    \/ \E i \in DOMAIN runs : Bootstrap(i)
    \/ \E i \in DOMAIN runs, results \in ProbeInputs : Verify(i, results)
    \/ \E i \in DOMAIN runs : Complete(i)
    \/ \E i \in DOMAIN runs : Timeout(i)

HandoffNext == RunNext \/ \E s \in Sessions : ManualClear(s)

\* callers appending concurrently
LedgerInit ==
    /\ InitLedger /\ InitHandoff /\ InitGate /\ InitConsole
    /\ appendsLeft = MaxAppends /\ runsLeft = 0

LedgerNext == CallerNext(Procs)

SpecLedger == LedgerInit /\ [][LedgerNext]_vars

\* the coordinator running handoffs one after another
HandoffInit ==
    /\ InitLedger /\ InitHandoff /\ InitGate /\ InitConsole
    /\ appendsLeft = 0 /\ runsLeft = MaxRuns

SpecHandoff == HandoffInit /\ [][HandoffNext]_vars

\* the coordinator drives a run it has started until the run is terminal
LiveInit == InitLedger /\ InitHandoff /\ InitGate /\ InitConsole
              /\ appendsLeft = 0 /\ runsLeft = MaxLiveRuns

SpecHandoffLive == LiveInit /\ [][RunNext]_vars /\ WF_vars(RunNext)

\* one handoff with a caller appending to its sessions meanwhile
ResumeInit ==
    /\ InitLedger /\ InitHandoff /\ InitGate /\ InitConsole
    /\ appendsLeft = MaxResumeAppends /\ runsLeft = 1

ResumeNext == CallerNext(ResumeCallers) \/ RunNext

SpecResume == ResumeInit /\ [][ResumeNext]_vars

\* the packets the VALIDATED step may be handed
PacketInputs ==
    {Packet(1, "s1", "s2",
            [mission |-> m, threads |-> th, decisions |-> ds,
             coverage |-> 90, confidence |-> 90]) :
        m \in {"m", ""},
        th \in {<<Item("t1", {"e"}, TRUE)>>, <<Item("t1", {}, TRUE)>>},
        ds \in {<<>>, <<Item("d1", {"e"}, TRUE)>>, <<Item("d1", {}, TRUE)>>,
                <<Item("d1", {"e"}, TRUE), Item("d2", {}, TRUE)>>}}

\* handoff 1, started from s1, stands before its VALIDATED step, holding
\* some packet
InitValidate ==
    /\ LET out == ApplyWrites([s \in Sessions |-> <<>>], [s \in Sessions |-> 0],
                      <<LifecycleEvent("s1", "CONTEXT_HANDOFF_STARTED", 1, None)>>)
       IN  ledger = out.led /\ nextSeq = out.ns
    /\ lock = [s \in Sessions |-> None]
    /\ pc = [p \in Procs |-> "idle"]
    /\ req = [p \in Procs |-> NoEnvelope]
    /\ seqOf = [p \in Procs |-> -1]
    /\ result = [p \in Procs |-> NoResult]
    /\ InitGate /\ InitConsole
    /\ \E pk \in PacketInputs :
          runs = <<[NewRun(1, "s1", "s2") EXCEPT !.state = "PRUNED", !.packet = pk]>>
    /\ held = {<<"s1", "s2">>}
    /\ failCount = [s \in Sessions |-> 0]
    /\ blocked = [s \in Sessions |-> FALSE]
    /\ alerts = [s \in Sessions |-> 0]

\* the VALIDATED step applied to every packet, and the runs that follow
ValidateInit == InitValidate /\ appendsLeft = 0 /\ runsLeft = MaxRuns - 1

SpecValidate == ValidateInit /\ [][HandoffNext]_vars

\* the evaluator applied to every rollout window
GateInit ==
    /\ InitLedger /\ InitHandoff /\ InitConsole
    /\ window \in WindowInputs /\ verdict = NoVerdict
    /\ appendsLeft = 0 /\ runsLeft = 0

GateNext == Evaluate

SpecGate == GateInit /\ [][GateNext]_vars

\* the history console with a user at it
ConsoleInit ==
    /\ InitLedger /\ InitHandoff /\ InitGate /\ InitView
    /\ appendsLeft = 0 /\ runsLeft = 0 /\ clicksLeft = MaxClicks

Settle ==
    \/ \E call \in app.globalCalls : \E response \in GlobalResponses(call) :
           GlobalSettle(call, response)
    \/ \E call \in app.sessionCalls : \E responses \in SessionResponses(call) :
           SessionSettle(call, responses)

ConsoleNext ==
    \/ Mount
    \/ Settle
    \/ \E id \in ConsoleSessions : onSelectSession(id)
    \/ ToggleRaw
    \/ Prev
    \/ Next
    \/ Refresh

SpecConsole == ConsoleInit /\ [][ConsoleNext]_vars

\* every fetch is answered in the end
SpecConsoleFair == SpecConsole /\ WF_vars(Mount \/ Settle)

(***************************************************************************)
(* Properties.                                                             *)
(***************************************************************************)

\* C1: for every session, read(session_id, since=0) returns envelopes whose
\* sequence values are strictly increasing and gap-free (0, 1, 2, ...), under
\* any interleaving of concurrent appends to that session and to others: no
\* sequence is assigned twice and none is skipped.
C1_GapFreeSequences ==
    \A s \in Sessions :
        LET got == Read(s, 0, Len(ledger[s])) IN
        /\ Len(got) = Len(ledger[s])
        /\ \A k \in DOMAIN got : got[k]["sequence"] = k - 1

\* two callers have appended to one session, and one to another session
C1_Witness ==
    /\ Len(ledger["s1"]) = 2
    /\ ledger["s1"][1]["actor_id"] # ledger["s1"][2]["actor_id"]
    /\ Len(ledger["s2"]) = 1

C2_RequiredFields ==
    {"schema_version", "event_id", "session_id", "trace_id", "timestamp_utc",
     "actor_id", "actor_role", "channel", "event_type", "payload"}

C2_Malformed(env) ==
    \/ \E f \in C2_RequiredFields : f \notin DOMAIN env
    \/ env["actor_role"] \notin {"PM", "LEAD", "DEV", "AUDITOR", "SYSTEM", "USER"}
    \/ env["channel"] \notin {"GLOBAL", "LOCAL", "SYSTEM", "AUTOPROMPT"}

C2_NothingMalformedKept ==
    /\ \A s \in Sessions : \A k \in DOMAIN ledger[s] : ~C2_Malformed(ledger[s][k])
    /\ \A p \in Procs : pc[p] # "idle" => ~C2_Malformed(req[p])

C2_MalformedInputs ==
    [p \in Procs |-> {env \in EnvelopeInputs(p) : C2_Malformed(env)}]

C2_RejectionStep ==
    \A p \in Procs : \A env \in C2_MalformedInputs[p] :
        (pc[p] = "idle" /\ AppendCall(p, env)) =>
            /\ result'[p].status = "ValidationError"
            /\ UNCHANGED <<ledger, nextSeq, lock, pc, req, seqOf, appendsLeft>>

\* C2: append of an envelope that misses a required field, or whose actor_role
\* or channel is outside the closed sets, fails with ValidationError and leaves
\* the ledger unchanged: nothing is persisted or left in flight, and no sequence
\* number is consumed, so the next valid append gets the sequence it would have
\* got without the rejected call.
C2_MalformedRejected == []C2_NothingMalformedKept /\ [][C2_RejectionStep]_vars

\* a call was rejected, and the other caller's append got sequence 1
C2_Witness ==
    /\ result["p1"].status = "ValidationError"
    /\ result["p2"] = [status |-> "ok", sequence |-> 1]
    /\ \A s \in Sessions : \A k \in DOMAIN ledger[s] : ledger[s][k]["actor_id"] = "p2"

(***************************************************************************)
(* C3.  The order of the states of a transition run.                       *)
(***************************************************************************)
C3_Order ==
    { <<"TRIGGERED", "FROZEN">>, <<"FROZEN", "SNAPSHOTTED">>,
      <<"SNAPSHOTTED", "COMPRESSED">>, <<"COMPRESSED", "PRUNED">>,
      <<"PRUNED", "VALIDATED">>, <<"VALIDATED", "BOOTSTRAPPED">>,
      <<"BOOTSTRAPPED", "VERIFIED">>, <<"VERIFIED", "COMPLETED">> }

C3_NonTerminalStates == {pair[1] : pair \in C3_Order}

\* a step starts runs in TRIGGERED, moves a run to its immediate successor or
\* to FAILED, and leaves a COMPLETED or FAILED run as it is
C3_Step ==
    /\ DOMAIN runs \subseteq DOMAIN runs'
    /\ \A i \in DOMAIN runs' \ DOMAIN runs : runs'[i].state = "TRIGGERED"
    /\ \A i \in DOMAIN runs :
           /\ runs[i].state \in {"COMPLETED", "FAILED"} => runs'[i] = runs[i]
           /\ runs'[i].state # runs[i].state =>
                  \/ <<runs[i].state, runs'[i].state>> \in C3_Order
                  \/ runs'[i].state = "FAILED"

\* from every non-terminal state a step to FAILED is possible
C3_FailedReachable ==
    \A i \in DOMAIN runs :
        /\ runs[i].state \in C3_NonTerminalStates \cup {"COMPLETED", "FAILED"}
        /\ runs[i].state \in C3_NonTerminalStates =>
               ENABLED (HandoffNext /\ runs'[i].state = "FAILED")

\* C3: every transition run moves through TRIGGERED, FROZEN, SNAPSHOTTED,
\* COMPRESSED, PRUNED, VALIDATED, BOOTSTRAPPED, VERIFIED, COMPLETED in that
\* order only: each change of state goes to the immediate successor or to
\* FAILED, FAILED can be reached from every non-terminal state, and a
\* COMPLETED or FAILED run never changes again.
C3_StateOrder == []C3_FailedReachable /\ [][C3_Step]_vars

\* one run went the whole way, another one failed on its way
C3_Witness ==
    \E i, j \in DOMAIN runs :
        /\ runs[i].state = "COMPLETED"
        /\ runs[j].state = "FAILED" /\ runs[j].reason = "ProbeFailure"

(***************************************************************************)
(* C4.  COMPLETED needs all five probes.                                   *)
(***************************************************************************)
C4_FiveProbes == {"mission", "threads", "decisions", "artifacts", "risks"}

\* the lifecycle event of this type was written for handoff i
C4_Emitted(type, i) ==
    \E s \in Sessions : \E k \in DOMAIN ledger[s] :
        /\ ledger[s][k]["event_type"] = type
        /\ ledger[s][k]["payload"].handoff_id = i

C4_AgentRecords(s) ==
    {k \in DOMAIN ledger[s] : ledger[s][k]["actor_role"] \notin {"SYSTEM", "AUDITOR"}}

C4_CompletedOnlyVerified ==
    \A i \in DOMAIN runs :
        LET r == runs[i]
            report == r.packet.continuity_probe_results
            completed == r.state = "COMPLETED"
        IN  /\ completed <=> C4_Emitted("CONTEXT_HANDOFF_COMPLETED", i)
            /\ completed =>
                   \A c \in C4_FiveProbes : c \in DOMAIN report /\ report[c]
            /\ (\E c \in DOMAIN report : ~report[c]) =>
                   /\ ~completed
                   /\ C4_AgentRecords(r.target) = {}
                   /\ \A role \in ActorRoles \ {"SYSTEM", "AUDITOR"} :
                          ~Admits(r.target, role)

C4_FailedStays ==
    \A i \in DOMAIN runs :
        /\ runs[i].state = "FAILED" => runs'[i].state = "FAILED"
        /\ (\E c \in DOMAIN runs[i].packet.continuity_probe_results :
                ~runs[i].packet.continuity_probe_results[c])
              => runs'[i].packet.continuity_probe_results
                     = runs[i].packet.continuity_probe_results

\* C4: a run is COMPLETED, and CONTEXT_HANDOFF_COMPLETED is emitted for it,
\* only if each of the five probes (mission, threads, decisions, artifacts,
\* risks) passed; once a probe has failed the run is never COMPLETED and the
\* target session keeps refusing agent events; a FAILED run stays FAILED.
C4_CompletedNeedsAllProbes == []C4_CompletedOnlyVerified /\ [][C4_FailedStays]_vars

\* a probe failed, and the agent that then tried to resume on the target was
\* turned away
C4_Witness ==
    /\ Len(runs) = 1
    /\ runs[1].state = "FAILED" /\ runs[1].reason = "ProbeFailure"
    /\ runs[1].detail = {"decisions", "risks"}
    /\ result["p1"].status = "SessionClosed"
    /\ Len(ledger[runs[1].target]) = 1

(***************************************************************************)
(* C5.  The packet is the record at sequence 0 of the target session.      *)
(***************************************************************************)
C5_IsPacketOf(rec, i) ==
    /\ rec["event_type"] = "HANDOFF_PACKET"
    /\ rec["payload"].handoff_id = i
    /\ rec["actor_id"] = "coordinator"

C5_PacketFirst ==
    /\ \A i \in DOMAIN runs :
           LET r == runs[i]
               t == r.target
           IN  /\ r.bootstrapped =>
                      /\ ledger[t] # <<>>
                      /\ C5_IsPacketOf(ledger[t][1], i)
                      /\ ledger[t][1]["sequence"] = 0
                      /\ ledger[t][1]["payload"].target_session_id = t
               /\ (~r.bootstrapped /\ r.state # "FAILED") =>
                      ledger[t] = <<>> /\ nextSeq[t] = 0
               /\ (~r.bootstrapped /\ r.state = "FAILED") =>
                      \A s \in Sessions : \A k \in DOMAIN ledger[s] :
                          ~C5_IsPacketOf(ledger[s][k], i)
    /\ \A s \in Sessions : \A k \in DOMAIN ledger[s] :
           ledger[s][k]["event_type"] = "HANDOFF_PACKET" =>
               /\ k = 1
               /\ ledger[s][k]["sequence"] = 0
               /\ \E i \in DOMAIN runs :
                      runs[i].target = s /\ C5_IsPacketOf(ledger[s][k], i)

C5_FirstRecordKept ==
    \A s \in Sessions :
        ledger[s] # <<>> => ledger'[s] # <<>> /\ ledger'[s][1] = ledger[s][1]

\* C5: the packet of a handoff is the record at sequence 0 of its target
\* session: until it is written the target session is empty (no agent event
\* is admitted), the record in that slot is the coordinator's packet and no
\* other, and the first record of a session never changes once written.
C5_PacketAtSequenceZero == []C5_PacketFirst /\ [][C5_FirstRecordKept]_vars

\* a COMPLETED handoff whose target has taken an agent event after the packet
C5_Witness ==
    /\ Len(runs) = 1 /\ runs[1].state = "COMPLETED"
    /\ Len(ledger[runs[1].target]) = 2
    /\ ledger[runs[1].target][1]["event_type"] = "HANDOFF_PACKET"
    /\ ledger[runs[1].target][2]["actor_role"] = "DEV"
    /\ ledger[runs[1].target][2]["sequence"] = 1

(***************************************************************************)
(* C6.  Coverage below the gate: bounded retries, then CoverageShortfall.  *)
(***************************************************************************)
C6_LowCoverage(r) ==
    r.state = "SNAPSHOTTED" /\ r.packet.coverage_score < 80

C6_Step ==
    \A i \in DOMAIN runs :
        LET r == runs[i]
            q == runs'[i]
        IN  /\ (C6_LowCoverage(r) /\ q # r) =>
                   \/ /\ q.state = "SNAPSHOTTED"
                      /\ q.retries = r.retries + 1
                      /\ q.retries <= MaxRetries
                      /\ q.budget > r.budget
                   \/ /\ q.state = "FAILED"
                      /\ q.reason = "CoverageShortfall"
                      /\ r.retries >= 1 /\ r.retries = MaxRetries
                      /\ "coverage_score" \in q.detail
                   \/ q.state = "FAILED" /\ q.reason = "Timeout"
            /\ (q.reason = "CoverageShortfall" /\ r.reason # "CoverageShortfall") =>
                   r.state = "SNAPSHOTTED" /\ r.retries >= 1

C6_Bounded ==
    \A i \in DOMAIN runs : runs[i].retries \in 0..MaxRetries

C6_Exhausted(i) ==
    i \in DOMAIN runs /\ C6_LowCoverage(runs[i]) /\ runs[i].retries = MaxRetries

C6_Ended(i) ==
    /\ i \in DOMAIN runs
    /\ runs[i].state = "FAILED"
    /\ runs[i].reason \in {"CoverageShortfall", "Timeout"}

\* C6: a run whose coverage_score at SNAPSHOTTED is below the gate is retried
\* with a larger evidence budget at least once before it fails for that
\* reason and never goes on to COMPRESSED; the retries never exceed the
\* maximum; and once they are used up with coverage still below the gate the
\* run ends in FAILED, with reason CoverageShortfall unless a timeout of the
\* caller ends it first.
C6_CoverageRetry ==
    /\ [][C6_Step]_vars
    /\ []C6_Bounded
    /\ \A i \in 1..MaxLiveRuns : C6_Exhausted(i) ~> C6_Ended(i)

\* a run that failed on coverage after its retries
C6_Witness ==
    \E i \in DOMAIN runs :
        /\ runs[i].state = "FAILED" /\ runs[i].reason = "CoverageShortfall"
        /\ runs[i].detail = {"coverage_score"}
        /\ failCount[runs[i].source] = 1

(***************************************************************************)
(* C7.  Three consecutive failures of one source session.                  *)
(***************************************************************************)
\* the FAILED runs of source s since its last COMPLETED one, among the first
\* n runs of rs
RECURSIVE C7_Streak(_, _, _)
C7_Streak(rs, s, n) ==
    IF n = 0 THEN 0
    ELSE IF rs[n].source # s \/ rs[n].state \notin {"COMPLETED", "FAILED"}
         THEN C7_Streak(rs, s, n - 1)
         ELSE IF rs[n].state = "FAILED" THEN 1 + C7_Streak(rs, s, n - 1) ELSE 0

C7_Blocked ==
    \A s \in Sessions :
        blocked[s] =>
            /\ alerts[s] >= 1
            /\ C7_Streak(runs, s, Len(runs)) >= 3
            /\ \A i \in DOMAIN runs :
                   runs[i].source = s => runs[i].state \in {"COMPLETED", "FAILED"}

C7_Step ==
    \A s \in Sessions :
        LET before == C7_Streak(runs, s, Len(runs))
            after == C7_Streak(runs', s, Len(runs'))
        IN  /\ (before = 2 /\ after = 3) =>
                   alerts'[s] = alerts[s] + 1 /\ blocked'[s]
            /\ alerts'[s] # alerts[s] =>
                   /\ alerts'[s] = alerts[s] + 1
                   /\ after = before + 1 /\ after >= 3
                   /\ ~blocked[s] /\ blocked'[s]
            /\ blocked[s] =>
                   /\ \A i \in DOMAIN runs' \ DOMAIN runs : runs'[i].source # s
                   /\ ~blocked'[s] => ManualClear(s)
            /\ (~blocked[s] /\ blocked'[s]) => alerts'[s] = alerts[s] + 1

C8_InFlight(i) == runs[i].state \notin {"COMPLETED", "FAILED"}

\* C8: no two transition runs of the same source session are in a
\* non-terminal state at the same time (nor is a session in two runs in
\* flight in any role), and while a run of a source session is in flight a
\* trigger for that session starts nothing.
C8_OneRunPerSource ==
    /\ \A i, j \in DOMAIN runs :
           (i # j /\ C8_InFlight(i) /\ C8_InFlight(j)) =>
               /\ runs[i].source # runs[j].source
               /\ {runs[i].source, runs[i].target}
                     \cap {runs[j].source, runs[j].target} = {}
    /\ \A i \in DOMAIN runs :
           C8_InFlight(i) =>
               \A t \in Sessions : ~ENABLED Trigger(runs[i].source, t)

\* a second run of s1 is in flight, after the first one of s1 has ended;
\* a third could be started, s3 is unused, and only the lock is in its way
C8_Witness ==
    /\ Len(runs) = 2
    /\ runs[1].source = "s1" /\ runs[1].state = "FAILED"
    /\ runs[2].source = "s1" /\ runs[2].state = "SNAPSHOTTED"
    /\ runsLeft > 0 /\ ~blocked["s1"]
    /\ ledger["s3"] = <<>> /\ nextSeq["s3"] = 0

(***************************************************************************)
(* C9.  A decision without a supporting event id fails VALIDATED.          *)
(***************************************************************************)
C9_Unsupported(pk) ==
    \E k \in DOMAIN pk.decisions_log : pk.decisions_log[k].support = {}

\* the events of building and handing over the packet of handoff i in a ledger
C9_Events(led, i) ==
    {type \in {"CONTEXT_HANDOFF_VALIDATED", "CONTEXT_HANDOFF_BOOTSTRAPPED",
               "CONTEXT_HANDOFF_PACKET_BUILT", "HANDOFF_PACKET"} :
        \E s \in Sessions : \E k \in DOMAIN led[s] :
            /\ led[s][k]["event_type"] = type
            /\ led[s][k]["payload"].handoff_id = i}

\* the VALIDATED step of a run whose packet has an unsupported decision
C9_Step ==
    \A i \in DOMAIN runs :
        (/\ runs[i].state = "PRUNED"
         /\ C9_Unsupported(runs[i].packet)
         /\ runs'[i] # runs[i]) =>
            /\ runs'[i].state = "FAILED"
            /\ runs'[i].reason \in {"ValidationError", "Timeout"}
            /\ runs'[i].reason = "ValidationError" => "decisions_log" \in runs'[i].detail
            /\ ~runs'[i].bootstrapped
            /\ ledger'[runs[i].target] = ledger[runs[i].target]
            /\ C9_Events(ledger', i) \subseteq {"CONTEXT_HANDOFF_PACKET_BUILT"}

\* what the ledger shows of a run that failed validation, and of any packet
C9_NothingVisible ==
    /\ \A i \in DOMAIN runs :
           runs[i].reason = "ValidationError" =>
               /\ runs[i].state = "FAILED"
               /\ C9_Events(ledger, i) = {"CONTEXT_HANDOFF_PACKET_BUILT"}
               /\ \A k \in DOMAIN ledger[runs[i].target] :
                      LET rec == ledger[runs[i].target][k]
                      IN  rec["actor_id"] = "coordinator" => rec["payload"].handoff_id # i
    /\ \A s \in Sessions : \A k \in DOMAIN ledger[s] :
           ledger[s][k]["event_type"] = "HANDOFF_PACKET" =>
               ~C9_Unsupported(ledger[s][k]["payload"])

\* C9: a run whose packet has a decisions_log entry without a supporting
\* event id leaves PRUNED only for FAILED (by the validation, naming
\* decisions_log, unless a timeout comes first); neither
\* CONTEXT_HANDOFF_VALIDATED nor CONTEXT_HANDOFF_BOOTSTRAPPED is ever in the
\* ledger for it, that step leaves its target session untouched and no
\* record of the handoff is ever in the target session, and no packet record
\* in the ledger holds an unsupported decision.
C9_UnsupportedDecisionFails == []C9_NothingVisible /\ [][C9_Step]_vars

\* the packet with the unsupported decision d2 has failed validation
C9_Witness ==
    /\ runs[1].state = "FAILED" /\ runs[1].reason = "ValidationError"
    /\ runs[1].detail = {"decisions_log"}
    /\ ledger["s2"] = <<>>
    /\ Len(ledger["s1"]) = 3
    /\ ledger["s1"][2]["event_type"] = "CONTEXT_HANDOFF_PACKET_BUILT"
    /\ ledger["s1"][3]["event_type"] = "CONTEXT_HANDOFF_FAILED"

(***************************************************************************)
(* C10.  The verdict of the quality gate evaluator.                        *)
(***************************************************************************)
C10_SomeProbeFalse(w) ==
    \E k \in DOMAIN w.handoffs :
        \E c \in DOMAIN w.handoffs[k].continuity_probe_results :
            ~w.handoffs[k].continuity_probe_results[c]

C10_Verdict ==
    verdict.evaluated =>
        /\ C10_SomeProbeFalse(window) =>
               ~verdict.pass /\ "continuity_probe_pass_rate" \in verdict.failing
        /\ verdict.pass =>
               /\ \A k \in DOMAIN window.handoffs :
                      /\ window.handoffs[k].invariants_passed
                      /\ window.handoffs[k].coverage_score >= 80
                      /\ window.handoffs[k].confidence_score >= 80
               /\ ~C10_SomeProbeFalse(window)
               /\ window.silent_after <= window.silent_before
        /\ verdict.pass <=> verdict.failing = {}
        /\ verdict.failing \subseteq
               {"invariants_passed", "coverage_score", "confidence_score",
                "continuity_probe_pass_rate", "silent_failures"}

C10_NoStateChanged ==
    verdict' # verdict =>
        /\ window' = window
        /\ ledger' = ledger /\ nextSeq' = nextSeq
        /\ runs' = runs /\ held' = held
        /\ blocked' = blocked /\ alerts' = alerts /\ failCount' = failCount

\* C10: for every rollout window the verdict is fail and names
\* continuity_probe_pass_rate when a probe result of a handoff in the window
\* is false; the verdict is pass only if every handoff has invariants_passed,
\* coverage_score and confidence_score at or above the threshold and no
\* failed probe, and the silent failures did not increase; the evaluation
\* changes nothing but the verdict.
C10_GateVerdict == []C10_Verdict /\ [][C10_NoStateChanged]_vars

\* two handoffs, one probe of the second one false, everything else in order
C10_Witness ==
    /\ verdict.evaluated /\ ~verdict.pass
    /\ verdict.failing = {"continuity_probe_pass_rate"}
    /\ Len(window.handoffs) = 2
    /\ \A k \in {1, 2} :
           DOMAIN window.handoffs[k].continuity_probe_results = ProbeCategories
    /\ \A c \in ProbeCategories : window.handoffs[1].continuity_probe_results[c]
    /\ {c \in ProbeCategories : ~window.handoffs[2].continuity_probe_results[c]}
          = {"mission"}

(***************************************************************************)
(* C11.  A failed load stays visible.                                      *)
(***************************************************************************)
C11_Statuses == {200, 204, 301, 404, 500}

\* fetchJson throws exactly on the responses that are not OK
C11_FetchJsonThrows ==
    \A st \in C11_Statuses :
        fetchJson(ErrorResponse(st)).threw <=> st \notin 200..299

\* C11: fetchJson throws for every response that is not OK, and when the
\* load of a kind (global, session) that ended last has failed, the console
\* shows an error.
C11_FailureShown ==
    /\ C11_FetchJsonThrows
    /\ settled.global = "failed" => app.error # Null
    /\ settled.session = "failed" => app.error # Null

(***************************************************************************)
(* C12.  Paging through the events of the selected session.                *)
(***************************************************************************)
\* the page shown is the page of the selected session at the current offset
C12_PageIsCurrent ==
    /\ app.eventsPage # Null
    /\ app.eventsPage.session_id = app.sessionId
    /\ app.eventsPage.offset = app.offset

\* a press of Next that moves the offset asks for the page that follows the
\* current page of the selected session, once
C12_NextStep ==
    (Next /\ app'.offset # app.offset) =>
        LET following == NextOffset(app.sessionId, PAGE_SIZE, app.offset) IN
        /\ following # NoOffset
        /\ app'.offset = following
        /\ app'.sessionId = app.sessionId
        /\ \E call \in app'.sessionCalls \ app.sessionCalls :
               /\ call.sid = app.sessionId /\ call.offset = following
               /\ app'.sessionCalls \ app.sessionCalls = {call}

\* with the current page shown, Next is enabled exactly when that page has a
\* next_offset
C12_NextEnabled ==
    C12_PageIsCurrent =>
        (canNext(app) <=>
            NextOffset(app.sessionId, PAGE_SIZE, app.offset) # NoOffset)

\* C12: pressing Next for the selected session requests the pages of that
\* session in order, each once: the offset requested is the next_offset the
\* server returned for the page of the same session at the current offset;
\* with that page shown Next is enabled exactly when its next_offset is not
\* null.
C12_PagesInOrder == []C12_NextEnabled /\ [][C12_NextStep]_vars

(***************************************************************************)
(* C13.  What is shown once the loads have settled.                        *)
(***************************************************************************)
C13_Settled == mounted /\ app.globalCalls = {} /\ app.sessionCalls = {}

\* the response is the answer to a request for the current selection
C13_Current(response) ==
    /\ response # Null
    /\ response.session_id = app.sessionId
    /\ response.raw = app.rawMode

\* C13: once no request is in flight, and the loadSession made last (the one
\* for the currently selected session, offset and raw mode) has succeeded,
\* the summary, the analysis and the events page shown are the responses to
\* that request, whatever order the responses arrived in.
C13_LatestResponseShown ==
    (C13_Settled /\ app.sessionId # None /\ settled.latest = "ok") =>
        /\ C13_Current(app.summary)
        /\ C13_Current(app.analysis)
        /\ C13_Current(app.eventsPage)
        /\ app.eventsPage.offset = app.offset

(***************************************************************************)
(* C14.  Auto-selection.                                                   *)
(***************************************************************************)
\* the step is the arrival of a global-analysis response
C14_GlobalResponse == \E call \in app.globalCalls : call \notin app'.globalCalls

C14_Step ==
    /\ (C14_GlobalResponse /\ app.sessionId # None) =>
           app'.sessionId = app.sessionId
    /\ (C14_GlobalResponse /\ app.sessionId = None /\ app'.sessionId # None) =>
           LET ids == app'.globalAnalysis.selected_session_ids IN
           /\ app'.sessionId = ids[Len(ids)]
           /\ app'.sessionId = sessionIds(app')[1]

\* C14: a global-analysis response selects a session (the last entry of
\* selected_session_ids, shown first) only when none is selected; when a
\* session is selected no global-analysis response changes it, whenever its
\* request was issued.
C14_SelectionKept == [][C14_Step]_vars

(***************************************************************************)
(* C15.  The loading flags.                                                *)
(***************************************************************************)
C15_RefreshDisabled == app.globalLoading \/ app.sessionLoading

\* C15: sessionLoading is true while a loadSession request is in flight and
\* globalLoading is true while a loadGlobal request is in flight, so Refresh
\* is disabled while any load is outstanding; with no request in flight both
\* flags are false.
C15_LoadingFlags ==
    /\ app.sessionCalls # {} => app.sessionLoading
    /\ app.globalCalls # {} => app.globalLoading
    /\ (app.sessionCalls # {} \/ app.globalCalls # {}) => C15_RefreshDisabled
    /\ (app.sessionCalls = {} /\ app.globalCalls = {}) =>
           ~app.sessionLoading /\ ~app.globalLoading

(***************************************************************************)
(* C16.  The console opened and left alone.                                *)
(***************************************************************************)
\* no button has been pressed
C16_Idle == clicksLeft = MaxClicks

C16_Selected == settled.first = "listed" => app.sessionId # None

C16_Loaded ==
    /\ C13_Current(app.summary)
    /\ C13_Current(app.analysis)
    /\ C13_Current(app.eventsPage)
    /\ app.eventsPage.offset = 0

C16_Bounded ==
    C16_Idle => app.globalFetches <= 2 /\ app.sessionBatches <= 1

C16_AtRest ==
    (C16_Idle /\ C13_Settled) =>
        /\ ~app.globalLoading /\ ~app.sessionLoading
        /\ C16_Selected
        /\ (settled.first = "listed" /\ settled.latest = "ok") => C16_Loaded

====
